---- MODULE Spec2Model ----
(***************************************************************************)
(* Model of NotificationService (the notification decision engine of the   *)
(* medicine expiry tracker): one check cycle reads the settings record,    *)
(* passes the time gate, and runs the Daily, Weekly and Monthly cadences,   *)
(* each of which queries the medicines, composes one message and hands it   *)
(* to sendNotification (email, then push, each logged).                     *)
(*                                                                         *)
(* Every await of the JavaScript source is one step of a cycle; between    *)
(* two steps the settings record may be changed through the HTTP API, and   *)
(* between two cycles the clock moves on.                                   *)
(***************************************************************************)
EXTENDS Integers, Sequences, FiniteSets

\* ------------------------------------------------------------------ bounds

\* How many check cycles are started in one behaviour.
MaxRuns == 2

\* How many times the settings record is changed from outside.
MaxSettingsChanges == 1

\* ------------------------------------------------------------------ time

MinutesPerDay == 1440
MsPerMinute == 60000
MsPerHour == 3600000

\* dayjs weeks start on Sunday (0); Monday is 1; Saturday (6) ends the week.
Monday == 1
Saturday == 6

\* The calendar the model runs in: day 0 is Sunday 31 December 2023, so
\* day 1 is Monday 1 January 2024, day 32 is Thursday 1 February 2024 and
\* day 92 is Monday 1 April 2024. The first days of January to May 2024:
MonthStarts == <<1, 32, 61, 92, 122>>

\* The instants at which the clock is read, as [day, minute of the day].
ClockPoints ==
    { [day |-> 1,  minute |-> 540],     \* Mon  1 Jan 09:00
      [day |-> 1,  minute |-> 542],     \* Mon  1 Jan 09:02
      [day |-> 4,  minute |-> 541],     \* Thu  4 Jan 09:01
      [day |-> 8,  minute |-> 538],     \* Mon  8 Jan 08:58
      [day |-> 32, minute |-> 540],     \* Thu  1 Feb 09:00
      [day |-> 92, minute |-> 539] }    \* Mon  1 Apr 08:59

\* The millisecond within the minute at which the first dayjs() of the gate
\* reads the clock, and by how many ms the second dayjs() reads it later.
SubMinuteMs == {0, 59999}
ClockDriftMs == {0, 1}

\* Date.getTime() at minute granularity.
ToMinutes(t) == t.day * MinutesPerDay + t.minute

\* dayjs().day()
DayOfWeek(t) == t.day % 7

\* The index in MonthStarts of the month t lies in.
MonthOf(t) ==
    CHOOSE i \in 1..(Len(MonthStarts) - 1) :
        MonthStarts[i] <= t.day /\ t.day < MonthStarts[i + 1]

\* The first day of the month t lies in.
MonthStartOf(t) == MonthStarts[MonthOf(t)]

\* dayjs().date()
DayOfMonth(t) == t.day - MonthStartOf(t) + 1

\* now.endOf('week').toDate(): the last minute of the Saturday of t's week.
EndOfWeek(t) ==
    (t.day - DayOfWeek(t) + Saturday) * MinutesPerDay + (MinutesPerDay - 1)

\* now.endOf('month').toDate(): the last minute of the month t lies in.
EndOfMonth(t) ==
    (MonthStarts[MonthOf(t) + 1] - 1) * MinutesPerDay + (MinutesPerDay - 1)

\* now.diff(target, 'minute'): the difference in whole minutes, truncated
\* towards zero.
DiffInMinutes(a, b) ==
    IF a >= b THEN (a - b) \div MsPerMinute ELSE -((b - a) \div MsPerMinute)

Abs(n) == IF n < 0 THEN -n ELSE n

\* dayjs().hour(h).minute(m): the instant `ms` (ms since the start of the
\* first read's day) with its hour and minute fields replaced; its seconds
\* and milliseconds, and its day, are kept.
TargetTimeToday(ms, h, m) ==
    LET dayMs == MinutesPerDay * MsPerMinute
    IN  (ms \div dayMs) * dayMs + h * MsPerHour + m * MsPerMinute
          + (ms % MsPerMinute)

\* Lines 25-37: whether the gate lets the cycle proceed. nowMs is what the
\* first dayjs() read, laterMs what the second read.
WithinWindow(nowMs, laterMs, notificationTime) ==
    LET target == TargetTimeToday(laterMs, notificationTime[1],
                                  notificationTime[2])
    IN  ~(Abs(DiffInMinutes(nowMs, target)) > 1)

\* ------------------------------------------------------------------ records

Procs == {1, 2}
\* The cycles of the specification in which cycles never overlap.
SeqProcs == {1}

MedIds == {1, 2, 3}
NullDate == -1

\* The medicine table the behaviours start from: medicine 2 expires on
\* Wed 3 Jan, medicine 1 on Fri 5 Jan, medicine 3 on Sat 20 Jan.
MedicineExpiry ==
    [id \in MedIds |->
        CASE id = 1 -> 5 * MinutesPerDay + 720
          [] id = 2 -> 3 * MinutesPerDay + 720
          [] OTHER  -> 20 * MinutesPerDay + 720]

Cadences == {"DAILY", "WEEKLY", "MONTHLY"}

NoEmail == "null"
NoEndpoint == "null"

Channels ==
    { [enableEmailNotifications |-> TRUE,  email |-> "b@x.com",
       enablePushNotifications |-> FALSE, endpoint |-> NoEndpoint],
      [enableEmailNotifications |-> FALSE, email |-> "a@x.com",
       enablePushNotifications |-> TRUE,  endpoint |-> "ep2"],
      [enableEmailNotifications |-> TRUE,  email |-> "a@x.com",
       enablePushNotifications |-> TRUE,  endpoint |-> "ep"],
      [enableEmailNotifications |-> TRUE,  email |-> NoEmail,
       enablePushNotifications |-> TRUE,  endpoint |-> NoEndpoint] }

CadenceToggles ==
    { [enableDailyNotifications |-> TRUE, enableWeeklyNotifications |-> TRUE,
       enableMonthlyNotifications |-> TRUE],
      [enableDailyNotifications |-> TRUE, enableWeeklyNotifications |-> FALSE,
       enableMonthlyNotifications |-> FALSE],
      [enableDailyNotifications |-> FALSE, enableWeeklyNotifications |-> TRUE,
       enableMonthlyNotifications |-> TRUE] }

\* The rows of NotificationSettings the model draws from.
SettingsRows ==
    { [enableEmailNotifications |-> ch.enableEmailNotifications,
       email |-> ch.email,
       enablePushNotifications |-> ch.enablePushNotifications,
       endpoint |-> ch.endpoint,
       notificationTime |-> <<9, 0>>,
       enableDailyNotifications |-> cd.enableDailyNotifications,
       enableWeeklyNotifications |-> cd.enableWeeklyNotifications,
       enableMonthlyNotifications |-> cd.enableMonthlyNotifications]
      : ch \in Channels, cd \in CadenceToggles }

VARIABLES
    settingsTable,   \* NotificationSettings: <<>> or <<row>> (latest row)
    medicines,       \* Medicine table: id -> [expiryDate, notified, lastNotificationDate]
    log,             \* NotificationLog: per cycle, the entries its current run appended
    clock,           \* the wall clock, [day, minute]
    cyc,             \* per check cycle: its position and local variables
    sends,           \* per cycle, its calls of resend.emails.send / webpush.sendNotification
    updates,         \* per cycle, its writes to the medicine table
    runs,            \* check cycles started so far
    changes          \* settings changes so far

vars == <<settingsTable, medicines, log, clock, cyc, sends, updates, runs, changes>>


\* ------------------------------------------------------------------ queries

\* The row the schema's defaults give (prisma/schema.prisma, lines 24-33).
DefaultSettingsRow ==
    [enableEmailNotifications |-> TRUE, email |-> NoEmail,
     enablePushNotifications |-> FALSE, endpoint |-> NoEndpoint,
     notificationTime |-> <<9, 0>>,
     enableDailyNotifications |-> TRUE, enableWeeklyNotifications |-> TRUE,
     enableMonthlyNotifications |-> TRUE]

\* Mutant of GetNotificationSettings: an empty table yields a default row
\* instead of nothing.
GetOrDefaultSettings(table) ==
    IF Len(table) = 0 THEN <<DefaultSettingsRow>> ELSE <<table[Len(table)]>>

\* prisma.notificationSettings.findFirst({orderBy: {updatedAt: 'desc'}}):
\* the latest row, or nothing (<<>>) when the table is empty.
GetNotificationSettings(table) ==
    IF Len(table) = 0 THEN <<>> ELSE <<table[Len(table)]>>

\* The ids of S as a sequence in ascending order of key[id].
RECURSIVE SortBy(_, _)
SortBy(S, key) ==
    IF S = {} THEN <<>>
    ELSE LET first == CHOOSE x \in S : \A y \in S : key[x] <= key[y]
         IN  <<first>> \o SortBy(S \ {first}, key)

\* Mutant of DailyWhere: the notified filter is missing.
DailyWhereIgnoringFlag(med, now) ==
    /\ med.expiryDate >= ToMinutes(now)
    /\ med.expiryDate <= EndOfWeek(now)

\* The where clause of the Daily findMany (lines 172-178).
DailyWhere(med, now) ==
    /\ med.expiryDate >= ToMinutes(now)
    /\ med.expiryDate <= EndOfWeek(now)
    /\ med.notified = FALSE

\* The where clause of the Weekly findMany (lines 137-142).
WeeklyWhere(med, now) ==
    /\ med.expiryDate >= ToMinutes(now)
    /\ med.expiryDate <= EndOfWeek(now)

\* The where clause of the Monthly findMany (lines 96-101).
MonthlyWhere(med, now) ==
    /\ med.expiryDate >= ToMinutes(now)
    /\ med.expiryDate <= EndOfMonth(now)

\* A Daily query that leaves out the medicines another cycle has selected
\* and is still dispatching or marking.
DailySelectUnclaimed(meds, now) ==
    SortBy({id \in MedIds :
               /\ DailyWhere(meds[id], now)
               /\ \A d \in Procs :
                     ~ /\ cyc[d].type = "DAILY"
                       /\ cyc[d].pc \notin {"idle", "done"}
                       /\ \E i \in 1..Len(cyc[d].selected) : cyc[d].selected[i] = id},
           [id \in MedIds |-> meds[id].expiryDate])

\* Daily findMany: the matches ordered by expiryDate ascending.
DailySelect(meds, now) ==
    SortBy({id \in MedIds : DailyWhere(meds[id], now)},
           [id \in MedIds |-> meds[id].expiryDate])

\* Weekly and Monthly findMany state no order: rows come in id order.
WeeklySelect(meds, now) ==
    SortBy({id \in MedIds : WeeklyWhere(meds[id], now)}, [id \in MedIds |-> id])

MonthlySelect(meds, now) ==
    SortBy({id \in MedIds : MonthlyWhere(meds[id], now)}, [id \in MedIds |-> id])

\* Mutant of IsMonday: the day check is missing.
EveryDayIsMonday(now) == TRUE

\* now.day() !== 1 (line 128), negated.
IsMonday(now) == DayOfWeek(now) = Monday

\* A day check with a memory: it is the 1st and no Monthly summary has gone
\* out earlier on this day.
FirstNotYetSummarised(now) ==
    /\ DayOfMonth(now) = 1
    /\ \A c \in Procs : cyc[c].sentToday["MONTHLY"] = <<>>

\* now.date() !== 1 (line 87), negated.
IsFirstOfMonth(now) == DayOfMonth(now) = 1

\* Mutant of NoneExpiring: the empty check is missing.
NeverEmpty(selected) == FALSE

\* expiringMedicines.length === 0
NoneExpiring(selected) == Len(selected) = 0

\* expiringMedicines[0].id, the medicine the log entries refer to.
UndefinedId == 0
Representative(selected) ==
    IF Len(selected) > 0 THEN selected[1] ELSE UndefinedId

\* Mutant of IsConsolidated: the summaries are sent as single-medicine calls.
ConsolidatedOnlyForDaily(type) == type = "DAILY"

\* The isConsolidated argument of the three sendNotification calls.
IsConsolidated(type) == TRUE

\* Mutant of CadenceOrder: Weekly is processed before Daily.
WeeklyFirstOrder == <<"WEEKLY", "DAILY", "MONTHLY">>

\* Lines 45-54: the order in which the cadences are processed.
CadenceOrder == <<"DAILY", "WEEKLY", "MONTHLY">>

IndexOf(type) == CHOOSE i \in 1..Len(CadenceOrder) : CadenceOrder[i] = type

\* Where a cycle goes when the cadence `type` is over.
NextPc(type) ==
    IF IndexOf(type) < Len(CadenceOrder) THEN CadenceOrder[IndexOf(type) + 1]
    ELSE "done"

\* currentSettings.enableEmailNotifications && currentSettings.email
EmailWanted(cs) == cs.enableEmailNotifications /\ cs.email # NoEmail

\* currentSettings.enablePushNotifications && currentSettings.endpoint
PushWanted(cs) == cs.enablePushNotifications /\ cs.endpoint # NoEndpoint

\* ------------------------------------------------------------------ state

IdleCycle ==
    [pc |-> "idle", forceCheck |-> FALSE, startAbsent |-> FALSE,
     passedGate |-> FALSE,
     gateNow |-> [day |-> 0, minute |-> 0], settings |-> <<>>, cad |-> <<>>,
     type |-> "none", selected |-> <<>>, medicine |-> UndefinedId,
     isConsolidated |-> TRUE, currentSettings |-> <<>>,
     catchSettings |-> <<>>, error |-> "none",
     outcome |-> "none", failedBefore |-> <<>>,
     sentToday |-> [type \in {"WEEKLY", "MONTHLY"} |-> <<>>]]

Init ==
    /\ settingsTable \in {<<>>} \cup {<<row>> : row \in SettingsRows}
    /\ \E notifiedIds \in {{}, {2}} :
          medicines = [id \in MedIds |->
                         [expiryDate |-> MedicineExpiry[id],
                          notified |-> id \in notifiedIds,
                          lastNotificationDate |->
                              IF id \in notifiedIds THEN 0 ELSE NullDate]]
    /\ log = [c \in Procs |-> <<>>]
    /\ clock \in ClockPoints
    /\ cyc = [c \in Procs |-> IdleCycle]
    /\ sends = [c \in Procs |-> <<>>]
    /\ updates = [c \in Procs |-> <<>>]
    /\ runs = 0
    /\ changes = 0


\* ------------------------------------------------------------------ helpers

\* The cycle's local state when the cadence `type` is over without a send.
Advance(l, type) ==
    [l EXCEPT !.pc = NextPc(type),
              !.outcome = IF NextPc(type) = "done" THEN "returned" ELSE @]

\* One processXNotifications call as it is recorded in the cycle's history.
CadenceRun(type, now, queried, selected, dispatched) ==
    [type |-> type, now |-> now, queried |-> queried, selected |-> selected,
     dispatched |-> dispatched]

\* The cycle's local state on entering sendNotification(expiringMedicines[0],
\* type, message, settings, true): the next await is the settings re-read.
EnterSend(l, type, now, selected) ==
    [l EXCEPT !.pc = "fetch",
              !.cad = Append(@, CadenceRun(type, now, TRUE, selected, TRUE)),
              !.type = type,
              !.selected = selected,
              !.medicine = Representative(selected),
              !.isConsolidated = IsConsolidated(type),
              !.currentSettings = <<>>,
              !.catchSettings = <<>>,
              !.error = "none"]

\* The cycle's local state when a processXNotifications call returned early.
SkipCadence(l, type, now, queried) ==
    [Advance(l, type) EXCEPT
        !.cad = Append(@, CadenceRun(type, now, queried, <<>>, FALSE))]

\* A processXNotifications call after its day check: `selected` is what its
\* findMany returned.
AfterQuery(l, type, now, selected) ==
    IF NoneExpiring(selected) THEN SkipCadence(l, type, now, TRUE)
    ELSE EnterSend(l, type, now, selected)

\* sendNotification returned to its caller: Daily goes on to updateMany, the
\* other cadences return to checkAndSendNotifications.
ReturnFromSend(l) ==
    IF l.type = "DAILY" THEN [l EXCEPT !.pc = "mark"] ELSE Advance(l, l.type)

\* Mutant of Rethrow: the catch block swallows the error.
SwallowError(l) == ReturnFromSend(l)

\* An error of the dispatch that the cadence run catches: the cycle goes on
\* with the next cadence.
CaughtByCadence(l) == Advance(l, l.type)

\* `throw error` (line 255): nothing up to the trigger catches it.
Rethrow(l) == [l EXCEPT !.pc = "done", !.outcome = "threw"]

\* Lines 239-250: the channels are done; a non-consolidated call updates its
\* medicine, then sendNotification returns.
UpdatesOne(l) == ~l.isConsolidated /\ l.medicine \in MedIds

\* An update that writes the flag of every medicine: TRUE for the given
\* ids and FALSE for the others.
MarkOnlyThese(meds, ids, now) ==
    [id \in MedIds |->
        [meds[id] EXCEPT !.notified = (id \in ids),
                         !.lastNotificationDate =
                             IF id \in ids THEN ToMinutes(now) ELSE @]]

MarkNotified(meds, ids, now) ==
    [id \in MedIds |->
        IF id \in ids
        THEN [meds[id] EXCEPT !.notified = TRUE,
                              !.lastNotificationDate = ToMinutes(now)]
        ELSE meds[id]]

UpdateRecord(l, ids) == [type |-> l.type, ids |-> ids]

LogEntry(l, channel, status, email) ==
    [medicineId |-> l.medicine, type |-> l.type, channel |-> channel,
     status |-> status, email |-> email]

SendRecord(l, channel, ok, to) ==
    [type |-> l.type, channel |-> channel, ok |-> ok, to |-> to,
     message |-> l.selected]

\* The NotificationLog is only ever appended to and never read by the
\* service, and each entry belongs to the cycle that wrote it: the model keeps
\* the entries per cycle, in the order written, and a cycle that starts
\* again starts with an empty view (what its earlier run wrote stays in the
\* table, out of the model's sight). The same holds for the records of the
\* sends and of the medicine updates.
Restart(history, c) == [history EXCEPT ![c] = <<>>]

Record(history, c, entry) == [history EXCEPT ![c] = Append(@, entry)]

\* ------------------------------------------------------------------ actions

\* History kept for a trigger from one of its cycles to the next (no
\* variable of the program): the selection of its latest Daily query when
\* the dispatch of that selection logged a failure, else nothing.
FailedBefore(c) ==
    LET daily == {i \in 1..Len(cyc[c].cad) :
                     cyc[c].cad[i].type = "DAILY" /\ cyc[c].cad[i].queried}
    IN  IF daily = {} THEN cyc[c].failedBefore
        ELSE IF \E i \in 1..Len(log[c]) :
                   log[c][i].type = "DAILY" /\ log[c][i].status = "failed"
        THEN cyc[c].cad[CHOOSE i \in daily : TRUE].selected
        ELSE <<>>

\* History kept for a trigger from one of its cycles to the next (no
\* variable of the program): for the Weekly and the Monthly cadence, the
\* selection its cycles last dispatched on the present day.
SentToday(c) ==
    [type \in {"WEEKLY", "MONTHLY"} |->
        LET runs_ == {i \in 1..Len(cyc[c].cad) :
                        cyc[c].cad[i].type = type /\ cyc[c].cad[i].dispatched}
        IN  IF runs_ = {} THEN cyc[c].sentToday[type]
            ELSE cyc[c].cad[CHOOSE i \in runs_ : TRUE].selected]

\* checkAndSendNotifications(forceCheck), lines 19-43: read the settings,
\* return when there are none, pass the time gate unless forced.
CheckStart(c, forceCheck, sub, drift) ==
    /\ cyc[c].pc \in {"idle", "done"}
    /\ runs < MaxRuns
    /\ LET settings == GetNotificationSettings(settingsTable)
           nowMs    == clock.minute * MsPerMinute + sub
           l        == [IdleCycle EXCEPT !.forceCheck = forceCheck,
                                         !.startAbsent = (Len(settingsTable) = 0),
                                         !.gateNow = clock,
                                         !.settings = settings,
                                         !.failedBefore = FailedBefore(c),
                                         !.sentToday = SentToday(c)]
       IN  cyc' = [cyc EXCEPT ![c] =
                IF Len(settings) = 0
                THEN [l EXCEPT !.pc = "done", !.outcome = "returned"]
                ELSE IF ~forceCheck
                        /\ ~WithinWindow(nowMs, nowMs + drift,
                                         settings[1].notificationTime)
                THEN [l EXCEPT !.pc = "done", !.outcome = "returned"]
                ELSE [l EXCEPT !.pc = CadenceOrder[1], !.passedGate = TRUE]]
    /\ runs' = runs + 1
    /\ log' = Restart(log, c)
    /\ sends' = Restart(sends, c)
    /\ updates' = Restart(updates, c)
    /\ UNCHANGED <<settingsTable, medicines, clock, changes>>

\* Lines 46-48 and processDailyNotifications up to its sendNotification call.
ProcessDaily(c) ==
    /\ cyc[c].pc = "DAILY"
    /\ LET l == cyc[c]
       IN  cyc' = [cyc EXCEPT ![c] =
                IF ~l.settings[1].enableDailyNotifications
                THEN Advance(l, "DAILY")
                ELSE AfterQuery(l, "DAILY", clock, DailySelect(medicines, clock))]
    /\ UNCHANGED <<settingsTable, medicines, log, clock, sends, updates, runs, changes>>

\* Lines 49-51 and processWeeklyNotifications up to its sendNotification call.
ProcessWeekly(c) ==
    /\ cyc[c].pc = "WEEKLY"
    /\ LET l == cyc[c]
       IN  cyc' = [cyc EXCEPT ![c] =
                IF ~l.settings[1].enableWeeklyNotifications
                THEN Advance(l, "WEEKLY")
                ELSE IF ~IsMonday(clock)
                THEN SkipCadence(l, "WEEKLY", clock, FALSE)
                ELSE AfterQuery(l, "WEEKLY", clock, WeeklySelect(medicines, clock))]
    /\ UNCHANGED <<settingsTable, medicines, log, clock, sends, updates, runs, changes>>

\* Lines 52-54 and processMonthlyNotifications up to its sendNotification call.
ProcessMonthly(c) ==
    /\ cyc[c].pc = "MONTHLY"
    /\ LET l == cyc[c]
       IN  cyc' = [cyc EXCEPT ![c] =
                IF ~l.settings[1].enableMonthlyNotifications
                THEN Advance(l, "MONTHLY")
                ELSE IF ~IsFirstOfMonth(clock)
                THEN SkipCadence(l, "MONTHLY", clock, FALSE)
                ELSE AfterQuery(l, "MONTHLY", clock, MonthlySelect(medicines, clock))]
    /\ UNCHANGED <<settingsTable, medicines, log, clock, sends, updates, runs, changes>>

\* The channels of sendNotification are done (lines 239-250).
FinishSend(c, l) ==
    /\ cyc' = [cyc EXCEPT ![c] = ReturnFromSend(l)]
    /\ medicines' = IF UpdatesOne(l)
                    THEN MarkNotified(medicines, {l.medicine}, clock)
                    ELSE medicines
    /\ updates' = IF UpdatesOne(l)
                  THEN Record(updates, c, UpdateRecord(l, {l.medicine}))
                  ELSE updates

\* A failed email send that is caught at its channel: the call goes on to
\* the push channel; any other error reaches the catch block.
CaughtAtChannel(l, error) ==
    [l EXCEPT !.pc = IF l.pc = "email" THEN "push" ELSE "catchFetch",
              !.error = error]

\* A channel send that is retried: the first error of a send leaves the call
\* at that send, a second one reaches the catch block.
RetryOnce(l, error) ==
    IF l.pc \in {"email", "push"} /\ l.error = "none"
    THEN [l EXCEPT !.error = error]
    ELSE [l EXCEPT !.pc = "catchFetch", !.error = error]

\* sendNotification, lines 225-251: one try block holds both channels, so an
\* error thrown anywhere in it leaves the block for the catch.
Throw(l, error) == [l EXCEPT !.pc = "catchFetch", !.error = error]

\* A re-read that falls back on the settings the caller passed in when the
\* table has no record.
SettingsOrPassedIn(l, table) ==
    IF Len(table) = 0 THEN l.settings
    ELSE <<table[Len(table)]>>

\* sendNotification ignoring line 221: the settings its caller passed in.
SettingsPassedIn(l, table) == l.settings

\* sendNotification, line 221: the settings the call works with are read
\* from the table again, the settings parameter is not used.
SettingsForSend(l, table) == GetNotificationSettings(table)

\* sendNotification, line 221: re-read the settings; reading a field of a
\* missing record (line 226) raises a TypeError inside the try.
SendFetch(c) ==
    /\ cyc[c].pc = "fetch"
    /\ LET cs == SettingsForSend(cyc[c], settingsTable)
           l  == [cyc[c] EXCEPT !.currentSettings = cs]
       IN  IF Len(cs) = 0
           THEN /\ cyc' = [cyc EXCEPT ![c] =
                              Throw(l, "TypeError")]
                /\ UNCHANGED <<medicines, updates>>
           ELSE IF EmailWanted(cs[1])
           THEN /\ cyc' = [cyc EXCEPT ![c] = [l EXCEPT !.pc = "email"]]
                /\ UNCHANGED <<medicines, updates>>
           ELSE IF PushWanted(cs[1])
           THEN /\ cyc' = [cyc EXCEPT ![c] = [l EXCEPT !.pc = "push"]]
                /\ UNCHANGED <<medicines, updates>>
           ELSE FinishSend(c, l)
    /\ UNCHANGED <<settingsTable, log, clock, sends, runs, changes>>

\* sendEmailNotification (lines 228, 259-343): resend.emails.send delivers
\* or throws; the error is rethrown into sendNotification's catch.
SendEmail(c, ok) ==
    /\ cyc[c].pc = "email"
    /\ LET l == cyc[c]
       IN  /\ sends' = Record(sends, c, SendRecord(l, "EMAIL", ok, l.currentSettings[1].email))
           /\ cyc' = [cyc EXCEPT ![c] =
                        IF ok THEN [l EXCEPT !.pc = "logEmail"]
                        ELSE Throw(l, "EmailError")]
    /\ UNCHANGED <<settingsTable, medicines, log, clock, updates, runs, changes>>

\* Line 229: log the email success, then go on to the push channel.
LogEmail(c) ==
    /\ cyc[c].pc = "logEmail"
    /\ LET l == cyc[c]
       IN  /\ log' = Record(log, c, LogEntry(l, "EMAIL", "success", l.currentSettings[1].email))
           /\ IF PushWanted(l.currentSettings[1])
              THEN /\ cyc' = [cyc EXCEPT ![c] = [l EXCEPT !.pc = "push"]]
                   /\ UNCHANGED <<medicines, updates>>
              ELSE FinishSend(c, l)
    /\ UNCHANGED <<settingsTable, clock, sends, runs, changes>>

\* sendPushNotification (lines 235, 345-355): webpush.sendNotification
\* delivers or throws.
SendPush(c, ok) ==
    /\ cyc[c].pc = "push"
    /\ LET l == cyc[c]
       IN  /\ sends' = Record(sends, c, SendRecord(l, "PUSH", ok, l.currentSettings[1].endpoint))
           /\ cyc' = [cyc EXCEPT ![c] =
                        IF ok THEN [l EXCEPT !.pc = "logPush"]
                        ELSE Throw(l, "PushError")]
    /\ UNCHANGED <<settingsTable, medicines, log, clock, updates, runs, changes>>

\* Line 236: log the push success; the channels are done.
LogPush(c) ==
    /\ cyc[c].pc = "logPush"
    /\ LET l == cyc[c]
       IN  /\ log' = Record(log, c, LogEntry(l, "PUSH", "success", NoEmail))
           /\ FinishSend(c, l)
    /\ UNCHANGED <<settingsTable, clock, sends, runs, changes>>

\* The catch block, line 253: read the settings again, into a constant of
\* the catch block's own.
CatchFetch(c) ==
    /\ cyc[c].pc = "catchFetch"
    /\ cyc' = [cyc EXCEPT ![c] =
                 [@ EXCEPT !.pc = "catchLog",
                           !.catchSettings = GetNotificationSettings(settingsTable)]]
    /\ UNCHANGED <<settingsTable, medicines, log, clock, sends, updates, runs, changes>>

\* The catch block, lines 254-255: log a failed entry, rethrow.
CatchLog(c) ==
    /\ cyc[c].pc = "catchLog"
    /\ LET l == cyc[c]
           email == IF Len(l.catchSettings) = 0 THEN NoEmail
                    ELSE l.catchSettings[1].email
       IN  /\ log' = Record(log, c, LogEntry(l, "EMAIL", "failed", email))
           /\ cyc' = [cyc EXCEPT ![c] = Rethrow(l)]
    /\ UNCHANGED <<settingsTable, medicines, clock, sends, updates, runs, changes>>

\* processDailyNotifications, lines 205-215: updateMany marks every selected
\* medicine notified; then the cycle goes on to the next cadence.
MarkAllNotified(c) ==
    /\ cyc[c].pc = "mark"
    /\ LET l == cyc[c]
           ids == {l.selected[i] : i \in 1..Len(l.selected)}
       IN  /\ medicines' = MarkNotified(medicines, ids, clock)
           /\ updates' = Record(updates, c, UpdateRecord(l, ids))
           /\ cyc' = [cyc EXCEPT ![c] = Advance(l, "DAILY")]
    /\ UNCHANGED <<settingsTable, log, clock, sends, runs, changes>>

\* prisma.notificationLog.create throws (the log sink is down).
LogAppendFails(c) ==
    /\ cyc[c].pc \in {"logEmail", "logPush", "catchLog"}
    /\ cyc' = [cyc EXCEPT ![c] =
                 IF @.pc = "catchLog"
                 THEN [Rethrow(@) EXCEPT !.error = "LogWriteError"]
                 ELSE Throw(@, "LogWriteError")]
    /\ UNCHANGED <<settingsTable, medicines, log, clock, sends, updates, runs, changes>>

\* ------------------------------------------------------------------ environment

\* Time passes. The clock points lie minutes or days apart and a cycle takes
\* seconds: the clock moves on to a later point only between cycles, and by
\* then the cycles that are over have returned to their triggers (their
\* local variables are gone).
Tick ==
    /\ \A c \in Procs : cyc[c].pc \in {"idle", "done"}
    /\ \E t \in ClockPoints :
          /\ ToMinutes(t) > ToMinutes(clock)
          /\ clock' = t
          /\ cyc' = [c \in Procs |->
                       [IdleCycle EXCEPT
                           !.failedBefore = FailedBefore(c),
                           !.sentToday = IF t.day = clock.day THEN SentToday(c)
                                         ELSE @]]
    /\ log' = [c \in Procs |-> <<>>]
    /\ sends' = [c \in Procs |-> <<>>]
    /\ updates' = [c \in Procs |-> <<>>]
    /\ UNCHANGED <<settingsTable, medicines, runs, changes>>

\* The settings record is created, or its channel toggles, address and push
\* subscription are changed, through the HTTP API.
PutSettings ==
    /\ changes < MaxSettingsChanges
    /\ \E row \in SettingsRows :
          /\ settingsTable # <<row>>
          /\ Len(settingsTable) > 0 =>
                /\ row.enableDailyNotifications = settingsTable[1].enableDailyNotifications
                /\ row.enableWeeklyNotifications = settingsTable[1].enableWeeklyNotifications
                /\ row.enableMonthlyNotifications = settingsTable[1].enableMonthlyNotifications
          /\ settingsTable' = <<row>>
    /\ changes' = changes + 1
    /\ UNCHANGED <<medicines, log, clock, cyc, sends, updates, runs>>

\* The settings record is deleted.
DeleteSettings ==
    /\ changes < MaxSettingsChanges
    /\ settingsTable # <<>>
    /\ settingsTable' = <<>>
    /\ changes' = changes + 1
    /\ UNCHANGED <<medicines, log, clock, cyc, sends, updates, runs>>

Environment == Tick \/ PutSettings \/ DeleteSettings

\* One step of cycle c.
CycleStep(c) ==
    \/ \E forceCheck \in BOOLEAN, sub \in SubMinuteMs, drift \in ClockDriftMs :
          CheckStart(c, forceCheck, sub, drift)
    \/ ProcessDaily(c)
    \/ ProcessWeekly(c)
    \/ ProcessMonthly(c)
    \/ SendFetch(c)
    \/ \E ok \in BOOLEAN : SendEmail(c, ok)
    \/ LogEmail(c)
    \/ \E ok \in BOOLEAN : SendPush(c, ok)
    \/ LogPush(c)
    \/ CatchFetch(c)
    \/ CatchLog(c)
    \/ MarkAllNotified(c)

\* Check cycles run one after the other.
Next == (\E c \in SeqProcs : CycleStep(c)) \/ Environment

Spec == Init /\ [][Next]_vars

\* As Next, and the log sink may fail.
NextLogFault == Next \/ (\E c \in SeqProcs : LogAppendFails(c))

SpecLogFault == Init /\ [][NextLogFault]_vars

\* Check cycles may overlap: a forced check may start while a scheduled one
\* is running. Overlapping cycles are followed from Monday 1 January with a
\* settings record present; the record and the clock stay as they are while
\* the cycles run.
InitOverlap ==
    /\ Init
    /\ Len(settingsTable) = 1
    /\ clock = [day |-> 1, minute |-> 540]

NextOverlap == \E c \in Procs : CycleStep(c)

SpecOverlap == InitOverlap /\ [][NextOverlap]_vars


\* ------------------------------------------------------------------ properties

SendStages == {"fetch", "email", "logEmail", "push", "logPush", "catchFetch", "catchLog"}

\* The records of `history` that cycle c wrote for the cadence `type`.
Of(history, c, type) ==
    SelectSeq(history[c], LAMBDA e : e.type = type)

WithStatus(entries, status) == SelectSeq(entries, LAMBDA e : e.status = status)

OnChannel(entries, channel) == SelectSeq(entries, LAMBDA e : e.channel = channel)

SetOf(seq) == {seq[i] : i \in 1..Len(seq)}

\* The cadence runs of cycle c for `type`.
RunsOf(c, type) == {r \in SetOf(cyc[c].cad) : r.type = type}

\* The Daily run of cycle c dispatched and is over: its sendNotification
\* call and, when that returned, its updateMany are behind it.
DailyOver(c) ==
    /\ \E r \in RunsOf(c, "DAILY") : r.dispatched
    /\ \/ cyc[c].type # "DAILY"
       \/ cyc[c].pc \notin SendStages \cup {"mark"}

\* The Daily dispatch of cycle c raised an error: its catch block logged it.
DailyFailed(c) == Len(WithStatus(Of(log, c, "DAILY"), "failed")) > 0

\* C1: with a settings record present, a cycle proceeds past the time gate
\* if and only if forceCheck is true or the current minute of the day and the
\* target minute of the day differ by at most 1.
C1_GateFiresIffWithinOneMinute ==
    \A c \in Procs :
        (cyc[c].pc # "idle" /\ ~cyc[c].startAbsent) =>
            LET target == cyc[c].settings[1].notificationTime
                n == cyc[c].gateNow.minute
                t == target[1] * 60 + target[2]
            IN  cyc[c].passedGate <=> (cyc[c].forceCheck \/ (n - t <= 1 /\ t - n <= 1))

\* C2: the Daily query never selects a medicine whose notified flag is true,
\* and once a Daily run whose send raised no error is over, every medicine
\* it selected has notified = TRUE and a lastNotificationDate.
C2_DailySelectsUnnotifiedAndMarks ==
    \A c \in Procs :
        /\ (cyc[c].type = "DAILY" /\ cyc[c].pc \in SendStages \cup {"mark"}) =>
              \A id \in SetOf(cyc[c].selected) : ~medicines[id].notified
        /\ (DailyOver(c) /\ ~DailyFailed(c)) =>
              \A r \in RunsOf(c, "DAILY") : \A id \in SetOf(r.selected) :
                  /\ medicines[id].notified
                  /\ medicines[id].lastNotificationDate # NullDate

\* C2 witness: a Daily run that selected two medicines, sent without error
\* and marked them is over.
C2_Witness ==
    \E c \in Procs :
        /\ DailyOver(c) /\ ~DailyFailed(c)
        /\ \E r \in RunsOf(c, "DAILY") : Len(r.selected) = 2
        /\ Len(WithStatus(Of(log, c, "DAILY"), "success")) > 0

\* C3: a notified flag goes from false to true only in the updateMany step of
\* a Daily run, for a medicine that run selected, after that run's
\* sendNotification returned without a failed send; no step of a Weekly or
\* Monthly run changes the medicine table.
C3_OnlyDailyMarksAfterSend ==
    [][ (medicines' # medicines) =>
          \E c \in Procs :
              /\ cyc[c].pc = "mark"
              /\ cyc[c].type = "DAILY"
              /\ cyc'[c].pc # "mark"
              /\ cyc[c].error = "none"
              /\ \A i \in 1..Len(Of(sends, c, "DAILY")) : Of(sends, c, "DAILY")[i].ok
              /\ Len(WithStatus(Of(log, c, "DAILY"), "failed")) = 0
              /\ \A id \in MedIds :
                    (medicines'[id] # medicines[id]) => id \in SetOf(cyc[c].selected)
      ]_vars

\* C3 witness: in one cycle the Daily run has marked its medicines and the
\* Weekly and Monthly runs have dispatched.
C3_Witness ==
    \E c \in Procs :
        /\ Len(Of(updates, c, "DAILY")) = 1
        /\ \E r \in RunsOf(c, "WEEKLY") : r.dispatched
        /\ \E r \in RunsOf(c, "MONTHLY") : r.dispatched
        /\ cyc[c].outcome = "returned"

\* C4: when the email send of a Daily run throws, that run writes exactly
\* one log entry with status 'failed' and no 'success' entry, and every
\* medicine it selected still has notified = FALSE afterwards.
C4_DailyEmailFailure ==
    \A c \in Procs :
        (cyc[c].type = "DAILY" /\ cyc[c].error = "EmailError" /\ cyc[c].pc = "done") =>
            /\ Len(WithStatus(Of(log, c, "DAILY"), "failed")) = 1
            /\ Len(WithStatus(Of(log, c, "DAILY"), "success")) = 0
            /\ Len(Of(updates, c, "DAILY")) = 0
            /\ \A id \in SetOf(cyc[c].selected) : ~medicines[id].notified

\* C4 witness: a Daily run that selected two medicines is over after its
\* email send threw.
C4_Witness ==
    \E c \in Procs :
        /\ cyc[c].type = "DAILY" /\ cyc[c].error = "EmailError" /\ cyc[c].pc = "done"
        /\ Len(cyc[c].selected) = 2
        /\ \E i \in 1..Len(sends[c]) :
              sends[c][i].channel = "EMAIL" /\ ~sends[c][i].ok

\* C5: when a channel fails to deliver in a sendNotification call, the call
\* writes exactly one 'failed' log entry, its channel is the channel that
\* failed, and no 'success' entry is written for that channel.
C5_FailedEntryNamesFailedChannel ==
    \A c \in Procs :
        (cyc[c].pc = "done" /\ cyc[c].error \in {"EmailError", "PushError"}) =>
            LET channel == IF cyc[c].error = "EmailError" THEN "EMAIL" ELSE "PUSH"
                entries == Of(log, c, cyc[c].type)
            IN  /\ Len(WithStatus(entries, "failed")) = 1
                /\ Len(OnChannel(WithStatus(entries, "failed"), channel)) = 1
                /\ Len(OnChannel(WithStatus(entries, "success"), channel)) = 0


\* C6: once a Daily run that dispatched is over, every medicine it selected
\* is marked notified with a timestamp, whether or not a delivery failed.
C6_MarkedRegardlessOfFailure ==
    \A c \in Procs :
        DailyOver(c) =>
            \A r \in RunsOf(c, "DAILY") : \A id \in SetOf(r.selected) :
                /\ medicines[id].notified
                /\ medicines[id].lastNotificationDate # NullDate

\* C6 as amended: once a Daily run that dispatched is over, the medicines it
\* selected are marked notified with a timestamp, by one updateMany, exactly
\* when the dispatch raised no error; when it raised one, the run changed no
\* medicine and its selected medicines still have notified = FALSE.
C6_MarkedIffDispatchSucceeded ==
    \A c \in Procs :
        DailyOver(c) =>
            \A r \in RunsOf(c, "DAILY") :
                IF DailyFailed(c)
                THEN /\ Len(Of(updates, c, "DAILY")) = 0
                     /\ \A id \in SetOf(r.selected) : ~medicines[id].notified
                ELSE /\ Len(Of(updates, c, "DAILY")) = 1
                     /\ Of(updates, c, "DAILY")[1].ids = SetOf(r.selected)
                     /\ \A id \in SetOf(r.selected) :
                           /\ medicines[id].notified
                           /\ medicines[id].lastNotificationDate # NullDate

\* C6 witness: a Daily run is over whose email was delivered and logged and
\* whose push delivery then failed.
C6_Witness ==
    \E c \in Procs :
        /\ DailyOver(c)
        /\ cyc[c].type = "DAILY" /\ cyc[c].error = "PushError"
        /\ Len(OnChannel(WithStatus(Of(log, c, "DAILY"), "success"), "EMAIL")) = 1
        /\ Len(cyc[c].selected) = 2

\* C7: a cadence run whose medicine query returned nothing makes no email
\* send and no push send, writes no log entry and changes no medicine.
C7_EmptySelectionDoesNothing ==
    \A c \in Procs : \A r \in SetOf(cyc[c].cad) :
        (r.queried /\ Len(r.selected) = 0) =>
            /\ ~r.dispatched
            /\ Len(Of(sends, c, r.type)) = 0
            /\ Len(Of(log, c, r.type)) = 0
            /\ Len(Of(updates, c, r.type)) = 0

\* C7 witness: a cycle is over in which the Daily, the Weekly and the
\* Monthly query each returned nothing.
C7_Witness ==
    \E c \in Procs :
        /\ cyc[c].pc = "done"
        /\ \A type \in Cadences :
              \E r \in RunsOf(c, type) : r.queried /\ Len(r.selected) = 0

\* C8: a Weekly run that reads a day other than Monday, and a Monthly run
\* that reads a day of the month other than 1, returns without a medicine
\* query, a dispatch, a send or a log write; so Weekly dispatches only on a
\* Monday and Monthly only on a 1st, also in a forced cycle.
C8_WeeklyOnMondayMonthlyOnFirst ==
    \A c \in Procs : \A r \in SetOf(cyc[c].cad) :
        LET wrongDay == \/ r.type = "WEEKLY" /\ r.now.day % 7 # 1
                        \/ r.type = "MONTHLY" /\ DayOfMonth(r.now) # 1
        IN  wrongDay =>
              /\ ~r.queried
              /\ ~r.dispatched
              /\ Len(Of(sends, c, r.type)) = 0
              /\ Len(Of(log, c, r.type)) = 0

\* C8 witness: a forced cycle with Weekly and Monthly enabled is over on a
\* Thursday that is the 4th: both runs returned at their day check.
C8_Witness ==
    \E c \in Procs :
        /\ cyc[c].pc = "done" /\ cyc[c].forceCheck /\ cyc[c].passedGate
        /\ cyc[c].settings[1].enableWeeklyNotifications
        /\ cyc[c].settings[1].enableMonthlyNotifications
        /\ \E r \in RunsOf(c, "WEEKLY") : r.now.day % 7 = 4 /\ ~r.queried
        /\ \E r \in RunsOf(c, "MONTHLY") : DayOfMonth(r.now) = 4 /\ ~r.queried

\* C9: a cycle that starts when there is no settings record is over at once:
\* it returns without an error, having run no cadence (no query, no
\* dispatch), written no log entry, sent nothing and changed no medicine.
C9_NoSettingsIsNoOp ==
    \A c \in Procs :
        (cyc[c].pc # "idle" /\ cyc[c].startAbsent) =>
            /\ cyc[c].pc = "done"
            /\ cyc[c].outcome = "returned"
            /\ cyc[c].cad = <<>>
            /\ log[c] = <<>>
            /\ sends[c] = <<>>
            /\ updates[c] = <<>>

\* C9 witness: a forced cycle that found no settings record is over.
C9_Witness ==
    \E c \in Procs :
        cyc[c].pc = "done" /\ cyc[c].startAbsent /\ cyc[c].forceCheck

Rank(type) ==
    CASE type = "DAILY" -> 1 [] type = "WEEKLY" -> 2 [] type = "MONTHLY" -> 3

\* Within cycle c the cadences are processed in the order Daily, Weekly,
\* Monthly, one at a time.
InCadenceOrder(c) ==
    LET cad == cyc[c].cad
    IN  /\ \A i, j \in 1..Len(cad) : i < j => Rank(cad[i].type) < Rank(cad[j].type)
        /\ cyc[c].pc \in SendStages \cup {"mark"} =>
              cyc[c].type = cad[Len(cad)].type
        /\ cyc[c].pc \in Cadences =>
              \A i \in 1..Len(cad) : Rank(cad[i].type) < Rank(cyc[c].pc)

\* Cycle c is over; it ran on a Monday that is the 1st with the three
\* cadences enabled, its Daily query found medicines and there are medicines
\* for the Weekly and the Monthly query.
MondayFirstWithSelections(c) ==
    /\ cyc[c].pc = "done" /\ cyc[c].passedGate
    /\ cyc[c].gateNow.day % 7 = 1 /\ DayOfMonth(cyc[c].gateNow) = 1
    /\ cyc[c].settings[1].enableDailyNotifications
    /\ cyc[c].settings[1].enableWeeklyNotifications
    /\ cyc[c].settings[1].enableMonthlyNotifications
    /\ \E r \in RunsOf(c, "DAILY") : Len(r.selected) > 0
    /\ Len(WeeklySelect(medicines, cyc[c].gateNow)) > 0
    /\ Len(MonthlySelect(medicines, cyc[c].gateNow)) > 0

AllThreeDispatched(c) ==
    \A type \in Cadences : \E r \in RunsOf(c, type) : r.dispatched

Appended(c) == sends'[c][Len(sends'[c])]

SendsOn(c, type, channel) == OnChannel(Of(sends, c, type), channel)

\* C12: within one sendNotification call the email is attempted, and its
\* success logged, before the push is attempted; after a failed email send
\* no push is attempted; and when the push fails after the email succeeded,
\* the EMAIL success entry stays in the log, the error is raised to the
\* caller and a Daily run skips its mark-notified step.
C12_EmailBeforePush ==
    \A c \in Procs : \A type \in Cadences :
        LET S == Of(sends, c, type)
            L == Of(log, c, type)
            emailLogged == Len(OnChannel(WithStatus(L, "success"), "EMAIL")) = 1
        IN  /\ \A j \in 1..Len(S) : S[j].channel = "PUSH" =>
                  \A i \in 1..Len(S) : S[i].channel = "EMAIL" =>
                      i < j /\ S[i].ok /\ emailLogged
            /\ (\E i \in 1..Len(S) : S[i].channel = "EMAIL" /\ ~S[i].ok) =>
                  Len(SendsOn(c, type, "PUSH")) = 0
            /\ ( /\ \E i \in 1..Len(S) : S[i].channel = "EMAIL" /\ S[i].ok
                 /\ \E j \in 1..Len(S) : S[j].channel = "PUSH" /\ ~S[j].ok
                 /\ cyc[c].pc \notin SendStages ) =>
                  /\ emailLogged
                  /\ cyc[c].pc = "done" /\ cyc[c].outcome = "threw"
                  /\ cyc[c].error = "PushError"
                  /\ type = "DAILY" =>
                        /\ Len(Of(updates, c, type)) = 0
                        /\ \A id \in SetOf(cyc[c].selected) : ~medicines[id].notified

\* C12 witness: a Daily call whose email was delivered and logged and whose
\* push then failed is over.
C12_Witness ==
    \E c \in Procs :
        /\ cyc[c].pc = "done" /\ cyc[c].type = "DAILY"
        /\ Len(SendsOn(c, "DAILY", "EMAIL")) = 1 /\ SendsOn(c, "DAILY", "EMAIL")[1].ok
        /\ Len(SendsOn(c, "DAILY", "PUSH")) = 1 /\ ~SendsOn(c, "DAILY", "PUSH")[1].ok
        /\ Of(sends, c, "DAILY")[1].channel = "EMAIL"
        /\ Len(Of(log, c, "DAILY")) = 2

\* The sendNotification call of cycle c is over because it raised an error.
CallRaised(c) == cyc[c].pc = "done" /\ cyc[c].outcome = "threw"

\* C13: a failure of a log write never overwrites the delivery outcome: when
\* every send of a call succeeded and a log append of the call throws, the
\* call records no 'failed' entry; and when a send of the call failed, the
\* error the call raises to its caller is that delivery error, also when the
\* append of the failed entry throws.
C13_LogFailureKeepsDeliveryOutcome ==
    \A c \in Procs :
        LET S == Of(sends, c, cyc[c].type)
            L == Of(log, c, cyc[c].type)
        IN  /\ ( /\ cyc[c].error = "LogWriteError"
                 /\ Len(S) > 0
                 /\ \A i \in 1..Len(S) : S[i].ok ) =>
                  Len(WithStatus(L, "failed")) = 0
            /\ (CallRaised(c) /\ \E i \in 1..Len(S) : ~S[i].ok) =>
                  cyc[c].error \in {"EmailError", "PushError"}

\* C14: checkAndSendNotifications catches the errors of its cadence runs and
\* their dispatches: no check cycle ends by raising an error to the trigger
\* that invoked it.
C14_CycleNeverRaises ==
    \A c \in Procs : cyc[c].pc = "done" => cyc[c].outcome = "returned"

\* Cycle d is between its Daily query and the end of its mark-notified
\* update, with medicine id in its selection.
DailyInFlightWith(d, id) ==
    /\ cyc[d].type = "DAILY"
    /\ cyc[d].pc \in SendStages \cup {"mark"}
    /\ id \in SetOf(cyc[d].selected)

\* C15: nothing keeps overlapping cycles apart: when a cycle runs its Daily
\* query while another cycle is between its own Daily query and its
\* mark-notified update, every medicine the other cycle selected that still
\* has notified = FALSE is selected again and goes into a second dispatch.
C15_OverlappingCyclesSelectTheSame ==
    [][ \A c, d \in Procs : \A id \in MedIds :
          ( /\ c # d
            /\ cyc[c].pc = "DAILY" /\ cyc'[c].pc # "DAILY"
            /\ cyc[c].settings[1].enableDailyNotifications
            /\ DailyInFlightWith(d, id)
            /\ ~medicines[id].notified ) =>
              /\ cyc'[c].pc = "fetch" /\ cyc'[c].type = "DAILY"
              /\ id \in SetOf(cyc'[c].selected)
      ]_vars

\* C15 witness: two cycles have each delivered a Daily message that contains
\* medicine 2, and neither has marked it yet.
C15_Witness ==
    /\ ~medicines[2].notified
    /\ \A c \in Procs :
          \E i \in 1..Len(sends[c]) :
              /\ sends[c][i].type = "DAILY" /\ sends[c][i].ok
              /\ 2 \in SetOf(sends[c][i].message)

\* Medicine id expires in the rest of the week the clock is in.
ExpiresThisWeek(id) ==
    /\ MedicineExpiry[id] >= ToMinutes(clock)
    /\ MedicineExpiry[id] <= EndOfWeek(clock)

\* C16: nothing is retried inside a cycle: a sendNotification call attempts
\* each channel at most once; the medicines of a Daily selection whose
\* dispatch failed keep notified = FALSE, and the Daily query of the next
\* cycle of the trigger that passes the gate selects each of them again
\* while it still expires in the current week.
C16_NoRetryUntilNextCycle ==
    [][ \A c \in Procs :
          /\ \A type \in Cadences : \A channel \in {"EMAIL", "PUSH"} :
                Len(OnChannel(Of(sends', c, type), channel)) <= 1
          /\ \A id \in SetOf(FailedBefore(c)) : ~medicines[id].notified
          /\ ( /\ cyc[c].pc = "DAILY" /\ cyc'[c].pc # "DAILY"
               /\ cyc[c].settings[1].enableDailyNotifications ) =>
                \A id \in SetOf(cyc[c].failedBefore) :
                    ExpiresThisWeek(id) =>
                        /\ cyc'[c].pc = "fetch" /\ cyc'[c].type = "DAILY"
                        /\ id \in SetOf(cyc'[c].selected)
      ]_vars

\* C16 witness: on the Thursday after a Monday cycle whose Daily dispatch of
\* medicines 2 and 1 failed, a cycle has selected medicine 1 again (medicine
\* 2 has expired) and has made its one email attempt.
C16_Witness ==
    \E c \in Procs :
        /\ cyc[c].failedBefore = <<2, 1>>
        /\ clock.day = 4
        /\ cyc[c].type = "DAILY" /\ cyc[c].selected = <<1>>
        /\ Len(OnChannel(Of(sends, c, "DAILY"), "EMAIL")) = 1

\* The dispatch of cycle c for `type` raised an error: its catch block has
\* logged it.
DispatchRaised(c, type) == Len(WithStatus(Of(log, c, type), "failed")) > 0

\* C17: a dispatch that raises an error ends its cycle: once the Daily
\* dispatch has raised, the cycle never runs its Weekly or Monthly cadence
\* (no day check, no query, no send, no log entry), and likewise a Weekly
\* dispatch that has raised keeps the Monthly cadence from running.
C17_RaisedDispatchStopsCycle ==
    \A c \in Procs : \A type \in Cadences :
        DispatchRaised(c, type) =>
            /\ cyc[c].pc = "done"
            /\ cyc[c].type = type
            /\ \A later \in Cadences :
                  (\/ type = "DAILY" /\ later \in {"WEEKLY", "MONTHLY"}
                   \/ type = "WEEKLY" /\ later = "MONTHLY") =>
                      /\ RunsOf(c, later) = {}
                      /\ Len(Of(sends, c, later)) = 0
                      /\ Len(Of(log, c, later)) = 0

\* C17 witness: on Monday 1 January, with the three cadences enabled and
\* medicines for each of them, a cycle is over whose Daily dispatch raised.
C17_Witness ==
    \E c \in Procs :
        /\ MondayFirstWithSelections(c)
        /\ DispatchRaised(c, "DAILY")
        /\ Len(cyc[c].cad) = 1

\* C18: no step of a check cycle, whether or not cycles overlap, sets a
\* notified flag back to FALSE, and a Daily query that runs once a medicine
\* has notified = TRUE does not select that medicine.
C18_NotifiedStaysTrue ==
    [][ \A id \in MedIds :
          medicines[id].notified =>
              /\ medicines'[id].notified
              /\ \A c \in Procs :
                    (cyc[c].pc = "DAILY" /\ cyc'[c].pc # "DAILY") =>
                        id \notin SetOf(cyc'[c].selected)
      ]_vars

\* C18 witness: a cycle has marked medicine 1; the other cycle, whose Daily
\* query ran after that, is dispatching or over with a Daily run that did
\* not select medicine 1.
C18_Witness ==
    \E c, d \in Procs :
        /\ c # d
        /\ medicines[1].notified /\ medicines[2].notified
        /\ \E i \in 1..Len(updates[c]) : 1 \in updates[c][i].ids
        /\ \E r \in RunsOf(d, "DAILY") : r.queried /\ 1 \notin SetOf(r.selected)

\* What the query of a summary cadence matches now.
SummarySelection(type) ==
    IF type = "WEEKLY" THEN WeeklySelect(medicines, clock)
    ELSE MonthlySelect(medicines, clock)

\* C19: the Weekly and the Monthly cadence keep no record of what they have
\* sent: when a cycle of a trigger dispatched the summary of a cadence and a
\* later cycle of that trigger passes the gate on the same day (a Monday for
\* Weekly, a 1st for Monthly) with the cadence enabled and the same non-empty
\* selection, that later cycle dispatches the summary again.
C19_SummariesAreRepeated ==
    [][ \A c \in Procs : \A type \in {"WEEKLY", "MONTHLY"} :
          ( /\ cyc[c].pc = type /\ cyc'[c].pc # type
            /\ IF type = "WEEKLY" THEN cyc[c].settings[1].enableWeeklyNotifications
               ELSE cyc[c].settings[1].enableMonthlyNotifications
            /\ cyc[c].sentToday[type] # <<>>
            /\ SummarySelection(type) = cyc[c].sentToday[type] ) =>
              /\ cyc'[c].pc = "fetch" /\ cyc'[c].type = type
              /\ cyc'[c].selected = cyc[c].sentToday[type]
              /\ cyc'[c].cad[Len(cyc'[c].cad)].dispatched
      ]_vars

\* C19 witness: on Monday 1 January a second cycle of a trigger is over, it
\* has delivered the Weekly and the Monthly summary that the cycle before it
\* had dispatched.
C19_Witness ==
    \E c \in Procs :
        /\ cyc[c].pc = "done" /\ cyc[c].outcome = "returned"
        /\ \A type \in {"WEEKLY", "MONTHLY"} :
              /\ cyc[c].sentToday[type] # <<>>
              /\ \E i \in 1..Len(sends[c]) :
                    /\ sends[c][i].type = type /\ sends[c][i].ok
                    /\ sends[c][i].message = cyc[c].sentToday[type]

\* What a sendNotification call of cycle c that found no settings record has
\* done: no send; and once it is over: one log entry, on channel EMAIL with
\* status 'failed', and the error raised to the caller.
NothingSentOneFailedEntry(c) ==
    LET L == Of(log, c, cyc[c].type)
    IN  /\ Len(Of(sends, c, cyc[c].type)) = 0
        /\ Len(Of(updates, c, cyc[c].type)) = 0
        /\ cyc[c].pc \in {"catchFetch", "catchLog", "done"}
        /\ cyc[c].pc # "done" => Len(L) = 0
        /\ cyc[c].pc = "done" =>
              /\ Len(L) = 1
              /\ L[1].channel = "EMAIL" /\ L[1].status = "failed"
              /\ cyc[c].outcome = "threw"

\* C20: when the settings record has been removed between the cycle's read
\* and the re-read of a sendNotification call, the call attempts no email
\* and no push, writes one log entry with channel EMAIL and status 'failed',
\* raises an error to its caller, and every medicine of the call's selection
\* has notified = FALSE afterwards.
C20_RemovedSettingsLeaveAllUnnotified ==
    [][ \A c \in Procs :
          /\ (cyc[c].pc = "fetch" /\ cyc'[c].pc # "fetch" /\ Len(settingsTable) = 0) =>
                cyc'[c].pc = "catchFetch" /\ cyc'[c].error = "TypeError"
          /\ cyc'[c].error = "TypeError" =>
                /\ NothingSentOneFailedEntry(c)'
                /\ \A id \in SetOf(cyc'[c].selected) : ~medicines'[id].notified
      ]_vars

\* C20 as amended: when the settings record has been removed between the
\* cycle's read and the re-read of a sendNotification call, the call
\* attempts no email and no push, writes one log entry with channel EMAIL
\* and status 'failed', raises an error to its caller and changes no
\* medicine: the medicines of a Daily selection still have notified = FALSE,
\* those of a Weekly or Monthly selection have the flag they had before.
C20_RemovedSettingsChangeNoMedicine ==
    [][ \A c \in Procs :
          /\ (cyc[c].pc = "fetch" /\ cyc'[c].pc # "fetch" /\ Len(settingsTable) = 0) =>
                cyc'[c].pc = "catchFetch" /\ cyc'[c].error = "TypeError"
          /\ cyc'[c].error = "TypeError" =>
                /\ NothingSentOneFailedEntry(c)'
                /\ cyc'[c].type = "DAILY" =>
                      \A id \in SetOf(cyc'[c].selected) : ~medicines'[id].notified
          /\ (cyc[c].error = "TypeError" \/ cyc'[c].error = "TypeError") =>
                medicines' = medicines
      ]_vars

\* C20 witness: a cycle read a settings record, selected two medicines for
\* its Daily run, found no record at the re-read and is over.
C20_Witness ==
    \E c \in Procs :
        /\ cyc[c].pc = "done" /\ cyc[c].error = "TypeError"
        /\ ~cyc[c].startAbsent /\ Len(cyc[c].settings) = 1
        /\ Len(settingsTable) = 0
        /\ cyc[c].type = "DAILY" /\ Len(cyc[c].selected) = 2
        /\ Len(sends[c]) = 0 /\ Len(log[c]) = 1

====
